---- MODULE Spec2Model ----
(***************************************************************************)
(* Model of the Robotics Application Manager (manager.py) and of its       *)
(* GUI relay (compatibility/server.py).                                    *)
(*                                                                         *)
(* The manager is a state machine of six states driven by commands that a  *)
(* transport thread puts in a queue.  The main thread runs the dispatch    *)
(* loop of Manager.start; the SIGINT handler of Manager.start runs on the  *)
(* same thread, between two steps of the loop; the relay runs on its own   *)
(* thread and calls Manager.update.                                        *)
(*                                                                         *)
(* External collaborators (launchers, linter, simulation services, the     *)
(* transport, the OS) are modelled by their outcome: a call either returns *)
(* or raises, the choice being an input of the step (a set F of the calls  *)
(* that raise).  The payload of a command is modelled by the class of      *)
(* payloads it belongs to (the branch of the handler it takes).            *)
(***************************************************************************)
EXTENDS Naturals, Sequences, FiniteSets

\* ------------------------------------------------------------------ bounds
MaxCmds == 6          \* commands the transport delivers in one behaviour
MaxQueue == 2         \* commands waiting in the queue at one time
MaxClients == 1       \* GUI connections the relay sees
MaxSignals == 2       \* deliveries of SIGINT in one behaviour
MaxPeers == 5         \* connections of the relay taken alone
MaxLen == 4           \* length of a submitted source text, in tokens

\* --------------------------------------------------------------- variables
VARIABLES
  state,                   \* Manager.state (set by the transitions Machine)
  queue,                   \* Manager.queue: messages the transport delivered
  world_launcher,          \* Manager.world_launcher
  visualization_launcher,  \* Manager.visualization_launcher
  application_process,     \* Manager.application_process
  gui_server,              \* Manager.gui_server
  current_client,          \* Server.current_client of the gui_server
  connections,             \* connections open on the gui_server's socket
  running,                 \* Manager.running
  consumer,                \* Manager.consumer: "created", "started", "stopped"
  orphans,                 \* per kind: live processes no handle refers to
  pc,                      \* position of the main thread in Manager.start
  message,                 \* the message the loop has dequeued
  nextId,                  \* id the transport gives the next command
  update_sent,             \* Manager.update has sent an update message since
                           \* the last dequeue
  last,                    \* the command processed since the last dequeue
  effects,                 \* the calls to collaborators it made, in order
  out,                     \* the messages it sent over the transport, in order
  afterPause,              \* "pause": the command processed last was a pause
                           \* that succeeded; "resume": it was a resume
                           \* processed right after such a pause; else "no"
  signals,                 \* deliveries of SIGINT to this process so far
  signal_raised,           \* an exception has left the signal handler
  code,                    \* the text given to add_frequency_control
  instrumented             \* what add_frequency_control made of it

handles == <<world_launcher, visualization_launcher, application_process,
             gui_server>>
program == <<state, queue, world_launcher, visualization_launcher,
             application_process, gui_server, current_client, connections,
             running,
             consumer, orphans, pc, message>>
observer == <<nextId, update_sent, last, effects, out,
              afterPause>>
shutdown == <<signals, signal_raised>>
instrumenter == <<code, instrumented>>
vars == <<program, observer, shutdown, instrumenter>>

\* ------------------------------------------------------------ Manager.states
states == {"idle", "connected", "world_ready", "visualization_ready",
           "application_running", "paused"}

\* A handle is None, or refers to a process that is live or has ended.
None == "None"
Handle == {None, "live", "dead"}
Kinds == {"world", "visualization", "application"}

\* ------------------------------------------------------ Manager.transitions
Triggers == {"connect", "launch_world", "prepare_visualization",
             "run_application", "pause", "resume", "terminate_application",
             "terminate_visualization", "terminate_universe", "disconnect",
             "style_check"}

\* The table with resume accepted in application_running too.
source_resume_anywhere(t) ==
  CASE t = "connect" -> {"idle"}
    [] t = "launch_world" -> {"connected"}
    [] t = "prepare_visualization" -> {"world_ready"}
    [] t = "run_application" -> {"visualization_ready", "paused"}
    [] t = "pause" -> {"application_running"}
    [] t = "resume" -> {"paused", "application_running"}
    [] t = "terminate_application" ->
         {"visualization_ready", "application_running", "paused"}
    [] t = "terminate_visualization" -> {"visualization_ready"}
    [] t = "terminate_universe" -> {"world_ready"}
    [] t = "disconnect" -> {"idle", "connected", "world_ready",
                            "visualization_ready", "application_running",
                            "paused"}
    [] t = "style_check" -> {"idle", "connected", "world_ready",
                             "visualization_ready", "application_running",
                             "paused"}

\* "source" of each entry of the table; "*" is the Machine's wildcard_all.
source(t) ==
  CASE t = "connect" -> {"idle"}
    [] t = "launch_world" -> {"connected"}
    [] t = "prepare_visualization" -> {"world_ready"}
    [] t = "run_application" -> {"visualization_ready", "paused"}
    [] t = "pause" -> {"application_running"}
    [] t = "resume" -> {"paused"}
    [] t = "terminate_application" ->
         {"visualization_ready", "application_running", "paused"}
    [] t = "terminate_visualization" -> {"visualization_ready"}
    [] t = "terminate_universe" -> {"world_ready"}
    [] t = "disconnect" -> states
    [] t = "style_check" -> states

\* "dest" of each entry of the table, as written.
dest(t) ==
  CASE t = "connect" -> "connected"
    [] t = "launch_world" -> "world_ready"
    [] t = "prepare_visualization" -> "visualization_ready"
    [] t = "run_application" -> "application_running"
    [] t = "pause" -> "paused"
    [] t = "resume" -> "application_running"
    [] t = "terminate_application" -> "visualization_ready"
    [] t = "terminate_visualization" -> "world_ready"
    [] t = "terminate_universe" -> "connected"
    [] t = "disconnect" -> "idle"
    [] t = "style_check" -> "*"

\* Names a message can carry: the triggers, the gui passthrough, and a name
\* that is neither.
Commands == Triggers \cup {"gui", "unknown"}

\* Classes of payload (message.data) of each command.
DataOf(c) ==
  CASE c = "style_check" -> {"lint_err", "lint_ok", "malformed", "bt_studio"}
    [] c = "run_application" ->
         {"inline_lint", "inline_ok", "inline_noloop", "malformed",
          "bt_studio", "bt_studio_bad"}
    [] c = "launch_world" ->
         {"valid", "invalid", "zip_ok", "zip_b64", "zip_bad"}
    [] c = "prepare_visualization" -> {"gazebo_rae", "other"}
    [] OTHER -> {"none"}

\* Collaborator calls of each command that may raise.
FaultsOf(c) ==
  CASE c = "launch_world" -> {"world_run", "world_run_partial"}
    [] c = "prepare_visualization" -> {"vis_run", "gui_start"}
    [] c = "run_application" -> {"copytree", "unpause_sim"}
    [] c = "pause" -> {"suspend", "pause_sim"}
    [] c = "resume" -> {"proc_resume", "unpause_sim"}
    [] c = "terminate_application" -> {"stop_app", "pause_sim", "reset_sim"}
    [] c = "terminate_visualization" -> {"term_vis", "gui_stop"}
    [] c = "terminate_universe" -> {"term_world"}
    [] c = "disconnect" -> {"stop_app", "term_vis", "term_world"}
    [] OTHER -> {}

NoMessage == [id |-> 0, command |-> "none", data |-> "none"]
NoLast == [id |-> 0, command |-> "none", data |-> "none", pre |-> "idle",
           outcome |-> "none", fault |-> FALSE]

\* --------------------------------------------------------------- session
\* What a handler reads and writes, gathered in one record so that each
\* handler is an operator from session to session.  raised: an exception
\* leaves the handler; restart: os.execl has replaced the process image.
Session ==
  [state |-> state,
   world_launcher |-> world_launcher,
   visualization_launcher |-> visualization_launcher,
   application_process |-> application_process,
   gui_server |-> gui_server,
   current_client |-> current_client,
   connections |-> connections,
   consumer |-> consumer,
   orphans |-> orphans,
   effects |-> <<>>,
   out |-> <<>>,
   raised |-> FALSE,
   restart |-> FALSE]

Call(S, e) == [S EXCEPT !.effects = Append(@, e)]
Raise(S) == [S EXCEPT !.raised = TRUE]

\* consumer.send_message: the message is handed to the transport.
send_message(S, m) == [S EXCEPT !.out = Append(@, m)]

\* Assignment of a new object to a handle: the process the old value refers
\* to, if live, is no longer referred to by anything.
Orphan(S, k, old) ==
  [S EXCEPT !.orphans[k] = @ + (IF old = "live" THEN 1 ELSE 0)]
SetWorld(S, v) ==
  [Orphan(S, "world", S.world_launcher) EXCEPT !.world_launcher = v]
SetVisualization(S, v) ==
  [Orphan(S, "visualization", S.visualization_launcher)
     EXCEPT !.visualization_launcher = v]
SetApplication(S, v) ==
  [Orphan(S, "application", S.application_process)
     EXCEPT !.application_process = v]

\* launcher.terminate() that returns: the process it refers to has ended.
Ended(h) == IF h = None THEN None ELSE "dead"

\* ------------------------------------------------- add_frequency_control
\* A source text is a sequence of tokens: a space, a newline, a loop header
\* in one of the four spellings the pattern of line 272 recognises, or any
\* other character.
Headers == {"while (True):", "while True:", "while 1:", "while (1):"}
Tokens == {" ", "nl", "x"} \cup Headers

\* frequency_control_code_imports; its last character is a newline.
Prelude == <<"imports">>
\* frequency_control_code_pre and frequency_control_code_post.
Pre == <<"start_time">>
Post == <<"finish_time_sleep">>

\* Each alternative of the pattern starts with [^ ]: a header matches where
\* the character before it is not a space.
Matches(text, i) == i > 1 /\ text[i] \in Headers /\ text[i - 1] # " "

\* re.search: the end of the leftmost match, 0 when there is none.
search(text) ==
  IF \E i \in 1..Len(text) : Matches(text, i)
    THEN CHOOSE i \in 1..Len(text) :
           Matches(text, i) /\ \A j \in 1..(i - 1) : ~Matches(text, j)
    ELSE 0

\* infinite_loop.end() on None.
AttributeError == <<"AttributeError">>

\* An instrumenter that returns the text with the prelude and the timing
\* fragment when it finds no loop header.
add_frequency_control_lenient(c) ==
  LET text == Prelude \o c
      end == search(text)
  IN  IF end = 0 THEN text \o Post
      ELSE SubSeq(text, 1, end) \o Pre \o SubSeq(text, end + 1, Len(text))
             \o Post

add_frequency_control(c) ==
  LET text == Prelude \o c
      end == search(text)
  IN  IF end = 0 THEN AttributeError
      ELSE SubSeq(text, 1, end) \o Pre \o SubSeq(text, end + 1, Len(text))
             \o Post

\* ---------------------------------------------------------------- handlers
state_change(S) == send_message(S, <<"state-changed", 0, S.state>>)

on_connect(S, d, F) == send_message(S, <<"introspection", 0, "-">>)

\* ConfigurationManager.validate raises ValueError on "invalid"; base64
\* decoding raises binascii.Error, a ValueError, on "zip_b64"; both are
\* caught by line 220.  On "zip_bad" prepare_custom_universe raises
\* something else (BadZipFile, KeyError, UnboundLocalError), which leaves the
\* handler.  After the except clause cfg is bound iff validate returned.
on_launch_world(S, d, F) ==
  LET V == Call(S, "validate")
      X == IF d \in {"zip_ok", "zip_b64", "zip_bad"}
             THEN Call(V, "extract") ELSE V
  IN  IF d = "invalid" THEN Raise(V)
      ELSE IF d = "zip_bad" THEN Raise(X)
      ELSE IF "world_run_partial" \in F
        THEN Raise(Call(SetWorld(X, "live"), "world_run"))
      ELSE IF "world_run" \in F
        THEN Raise(Call(SetWorld(X, "dead"), "world_run"))
      ELSE Call(SetWorld(X, "live"), "world_run")

on_prepare_visualization(S, d, F) ==
  LET V == Call(SetVisualization(S, IF "vis_run" \in F THEN "dead"
                                    ELSE "live"), "vis_run")
  IN  IF "vis_run" \in F THEN Raise(V)
      ELSE IF d # "gazebo_rae" THEN V
      ELSE IF "gui_start" \in F THEN Raise(Call(V, "gui_start"))
      ELSE [Call(V, "gui_start") EXCEPT !.gui_server = "started",
                                        !.current_client = 0,
                                        !.connections = {}]

pause_sim(S) == Call(S, "pause_sim")
unpause_sim(S) == Call(S, "unpause_sim")
reset_sim(S) == Call(S, "reset_sim")

\* Raises (bad archive) or spawns and unpauses; unpause_sim may raise.
run_bt_studio_application(S, d, F) ==
  LET X == Call(S, "bt_extract")
      P == unpause_sim(Call(SetApplication(X, "live"), "spawn_app"))
  IN  IF d = "bt_studio_bad" THEN Raise(X)
      ELSE IF "unpause_sim" \in F THEN Raise(P)
      ELSE P

\* The result of the linter taken to be empty whatever the code.
lint_errors_ignored(d) == FALSE

\* Lines 387-388: linter.evaluate_code returns a non-empty text.
lint_errors(d) == d = "inline_lint"

\* app_cfg["code"] of each class of inline payload: "inline_noloop" is code
\* with no loop header, the other classes have one at the start of a line.
CodeOf(d) ==
  IF d = "inline_noloop" THEN <<"x", "nl">>
  ELSE <<"x", "nl", "while True:", "nl", " ", "x", "nl">>

\* Lines 369-410: the inline-code path.  A bt-studio payload has no
\* "template" key, and "malformed" payloads lack a key too: line 369 raises.
run_inline(S, d, F) ==
  LET L == Call(S, "lint")
      W == Call(Call(L, "add_frequency_control"), "write")
      C == Call(W, "copytree")
      P == unpause_sim(Call(SetApplication(C, "live"), "spawn_app"))
  IN  IF d \in {"bt_studio", "bt_studio_bad", "malformed"} THEN Raise(S)
      ELSE IF lint_errors(d) THEN Raise(Call(L, "console"))
      ELSE IF add_frequency_control(CodeOf(d)) = AttributeError
        THEN Raise(Call(L, "add_frequency_control"))
      ELSE IF "copytree" \in F THEN Raise(C)
      ELSE IF "unpause_sim" \in F THEN Raise(P)
      ELSE P

\* Lines 363-367: an exception of run_bt_studio_application is swallowed by
\* "except Exception: pass" and the handler goes on with the inline path.
on_run_application(S, d, F) ==
  IF d \in {"bt_studio", "bt_studio_bad"}
    THEN LET B == run_bt_studio_application(S, d, F)
         IN  IF B.raised THEN run_inline([B EXCEPT !.raised = FALSE], d, F)
             ELSE B
    ELSE run_inline(S, d, F)

\* A style check that starts the application as on_run_application does.
on_style_check_spawning(S, d, F) ==
  Raise(Call(SetApplication(Call(S, "lint"), "live"), "spawn_app"))

on_style_check_application(S, d, F) ==
  IF d = "bt_studio" THEN S
  ELSE IF d = "malformed" THEN Raise(S)
  ELSE Raise(Call(Call(S, "lint"), "console"))

\* A pause that suspends the process and leaves the simulation running.
on_pause_process_only(S, d, F) ==
  IF S.application_process # "live" THEN Raise(S)
  ELSE IF "suspend" \in F THEN Raise(Call(S, "suspend"))
  ELSE Call(S, "suspend")

on_pause(S, d, F) ==
  IF S.application_process # "live" THEN Raise(S)
  ELSE IF "suspend" \in F THEN Raise(Call(S, "suspend"))
  ELSE IF "pause_sim" \in F THEN Raise(pause_sim(Call(S, "suspend")))
  ELSE pause_sim(Call(S, "suspend"))

on_resume(S, d, F) ==
  IF S.application_process # "live" THEN Raise(S)
  ELSE IF "proc_resume" \in F THEN Raise(Call(S, "proc_resume"))
  ELSE IF "unpause_sim" \in F THEN Raise(unpause_sim(Call(S, "proc_resume")))
  ELSE unpause_sim(Call(S, "proc_resume"))

\* One try block around the four steps: the first that raises ends them.
on_terminate_application(S, d, F) ==
  LET T == Call(S, "stop_app")
      C == [T EXCEPT !.application_process = None]
  IN  IF S.application_process = None THEN S
      ELSE IF "stop_app" \in F THEN T
      ELSE IF "pause_sim" \in F THEN pause_sim(C)
      ELSE reset_sim(pause_sim(C))

on_terminate_visualization(S, d, F) ==
  LET T == Call(S, "term_vis")
      V == [T EXCEPT !.visualization_launcher = Ended(@)]
      G == Call(V, "gui_stop")
  IN  IF S.visualization_launcher = None THEN Raise(S)
      ELSE IF "term_vis" \in F THEN Raise(T)
      ELSE IF S.gui_server = None THEN V
      ELSE IF "gui_stop" \in F THEN Raise(G)
      ELSE [G EXCEPT !.gui_server = None, !.current_client = 0,
                     !.connections = {}]

on_terminate_universe(S, d, F) ==
  LET T == Call(S, "term_world")
  IN  IF S.world_launcher = None THEN Raise(S)
      ELSE IF "term_world" \in F THEN Raise(T)
      ELSE [T EXCEPT !.world_launcher = Ended(@)]

\* The three teardown blocks shared by on_disconnect and signal_handler:
\* each is guarded by the handle and wrapped in its own try.
StopApplication(S, F) ==
  IF S.application_process = None THEN S
  ELSE IF "stop_app" \in F THEN Call(S, "stop_app")
  ELSE [Call(S, "stop_app") EXCEPT !.application_process = None]

TerminateVisualization(S, F) ==
  IF S.visualization_launcher = None THEN S
  ELSE IF "term_vis" \in F THEN Call(S, "term_vis")
  ELSE [Call(S, "term_vis") EXCEPT !.visualization_launcher = Ended(@)]

\* The world teardown without its try: a terminate() that raises leaves the
\* caller.
TerminateWorld_no_try(S, F) ==
  IF S.world_launcher = None THEN S
  ELSE IF "term_world" \in F THEN Raise(Call(S, "term_world"))
  ELSE [Call(S, "term_world") EXCEPT !.world_launcher = Ended(@)]

TerminateWorld(S, F) ==
  IF S.world_launcher = None THEN S
  ELSE IF "term_world" \in F THEN Call(S, "term_world")
  ELSE [Call(S, "term_world") EXCEPT !.world_launcher = Ended(@)]

StopConsumer(S) == [Call(S, "consumer_stop") EXCEPT !.consumer = "stopped"]

\* A disconnect that leaves the world launcher alone.
on_disconnect_keeps_world(S, d, F) ==
  [Call(TerminateVisualization(
          StopApplication(StopConsumer(S), F), F), "execl")
     EXCEPT !.restart = TRUE]

\* os.execl replaces the process image: the handler never returns.
on_disconnect(S, d, F) ==
  [Call(TerminateWorld(TerminateVisualization(
          StopApplication(StopConsumer(S), F), F), F), "execl")
     EXCEPT !.restart = TRUE]

before(t, S, d, F) ==
  CASE t = "connect" -> on_connect(S, d, F)
    [] t = "launch_world" -> on_launch_world(S, d, F)
    [] t = "prepare_visualization" -> on_prepare_visualization(S, d, F)
    [] t = "run_application" -> on_run_application(S, d, F)
    [] t = "pause" -> on_pause(S, d, F)
    [] t = "resume" -> on_resume(S, d, F)
    [] t = "terminate_application" -> on_terminate_application(S, d, F)
    [] t = "terminate_visualization" -> on_terminate_visualization(S, d, F)
    [] t = "terminate_universe" -> on_terminate_universe(S, d, F)
    [] t = "disconnect" -> on_disconnect(S, d, F)
    [] t = "style_check" -> on_style_check_application(S, d, F)

\* Machine: the destination is committed after the "before" callback has
\* returned; set_state raises ValueError for a name that is no state ("*").
Commit(S, t) ==
  IF dest(t) \in states THEN state_change([S EXCEPT !.state = dest(t)])
  ELSE Raise(S)

\* self.trigger(name, data=...): AttributeError for a name that is no
\* trigger, MachineError when the state is not a source of the trigger.
trigger(S, t, d, F) ==
  IF t \notin Triggers THEN Raise(S)
  ELSE IF S.state \notin source(t) THEN Raise(S)
  ELSE LET B == before(t, S, d, F)
       IN  IF B.raised \/ B.restart THEN B ELSE Commit(B, t)

\* Server.send: under the lock, delivers to the current client if any.
send(S) ==
  LET C == Call(S, "send")
  IN  IF C.current_client # 0 THEN Call(C, "send_message") ELSE C

Ack(S, m) == send_message(S, <<"ack", m.id, S.state>>)

process_message(S, m, F) ==
  IF m.command = "gui"
    THEN IF S.gui_server = None THEN Raise(S) ELSE send(S)
    ELSE LET T == trigger(S, m.command, m.data, F)
         IN  IF T.raised \/ T.restart THEN T ELSE Ack(T, m)

\* The error event built as for "message is None": a fresh id.
ErrorEvent_fresh_id(S, m) == send_message(S, <<"error", 0, "-">>)

\* Lines 598-606: the except clause of the dispatch loop.
ErrorEvent(S, m) == send_message(S, <<"error", m.id, "-">>)

LoopBody(S, m, F) ==
  LET R == process_message(S, m, F)
  IN  IF R.raised THEN ErrorEvent(R, m) ELSE R

\* ------------------------------------------------------------------- Init
\* Manager.__init__ (lines 125-143) and Server.__init__ for the relay fields.
Init ==
  /\ state = "idle"
  /\ queue = <<>>
  /\ world_launcher = None
  /\ visualization_launcher = None
  /\ application_process = None
  /\ gui_server = None
  /\ current_client = 0
  /\ connections = {}
  /\ running = TRUE
  /\ consumer = "created"
  /\ orphans = [k \in Kinds |-> 0]
  /\ pc = "start"
  /\ message = NoMessage
  /\ nextId = 1
  /\ update_sent = FALSE
  /\ last = NoLast
  /\ effects = <<>>
  /\ out = <<>>
  /\ afterPause = "no"
  /\ signals = 0
  /\ signal_raised = FALSE
  /\ code = <<>>
  /\ instrumented = <<>>

\* ---------------------------------------------------------------- actions
\* Manager.start up to the loop: consumer.start() and signal.signal().
Start ==
  /\ pc = "start"
  /\ pc' = "loop"
  /\ consumer' = "started"
  /\ UNCHANGED <<state, queue, handles, current_client, connections, running,
                 orphans, message, nextId, update_sent, last, effects,
                 out, afterPause,
                 shutdown, instrumenter>>

\* The transport thread puts a message in the queue (ManagerConsumer).  The
\* queue holds the ids of the waiting messages: nothing reads the name or
\* the payload of a message before the loop dequeues it, so they are inputs
\* of Dequeue.
Deliver ==
  /\ consumer = "started"
  /\ Len(queue) < MaxQueue
  /\ nextId <= MaxCmds
  /\ queue' = Append(queue, nextId)
  /\ nextId' = nextId + 1
  /\ UNCHANGED <<state, handles, current_client, connections, running,
                 consumer, orphans, pc, message, update_sent, last,
                 effects, out, afterPause,
                 shutdown, instrumenter>>

\* A queue that hands out the newest message.
NextMessage_newest(q) == q[Len(q)]

\* The message queue.get() returns.
NextMessage(q) == Head(q)
Rest(q) == Tail(q)

\* Lines 590-596: the loop test, queue.empty() and queue.get().
Dequeue ==
  /\ pc = "loop"
  /\ running
  /\ queue # <<>>
  /\ \E c \in Commands : \E d \in DataOf(c) :
       message' = [id |-> NextMessage(queue), command |-> c, data |-> d]
  /\ queue' = Rest(queue)
  /\ pc' = "got"
  /\ last' = NoLast
  /\ effects' = <<>>
  /\ out' = <<>>
  /\ update_sent' = FALSE
  /\ UNCHANGED <<state, handles, current_client, connections, running,
                 consumer, orphans, nextId, afterPause,
                 shutdown, instrumenter>>

Outcome(R) ==
  IF R.restart THEN "restart" ELSE IF R.raised THEN "error" ELSE "ok"

Live(h) == IF h = "live" THEN 1 ELSE 0

\* The program after os.execl: a new Manager, and the processes the old one
\* had not ended are still running, referred to by no handle.
Restarted(R) ==
  /\ signals' = 0
  /\ signal_raised' = FALSE
  /\ state' = "idle"
  /\ queue' = <<>>
  /\ world_launcher' = None
  /\ visualization_launcher' = None
  /\ application_process' = None
  /\ gui_server' = None
  /\ current_client' = 0
  /\ connections' = {}
  /\ running' = TRUE
  /\ consumer' = "created"
  /\ pc' = "start"
  /\ orphans' =
       [k \in Kinds |->
          R.orphans[k] + Live(CASE k = "world" -> R.world_launcher
                                [] k = "visualization" ->
                                     R.visualization_launcher
                                [] k = "application" -> R.application_process)]

Returned(R) ==
  /\ state' = R.state
  /\ world_launcher' = R.world_launcher
  /\ visualization_launcher' = R.visualization_launcher
  /\ application_process' = R.application_process
  /\ gui_server' = R.gui_server
  /\ current_client' = R.current_client
  /\ connections' = R.connections
  /\ consumer' = R.consumer
  /\ orphans' = R.orphans
  /\ pc' = "loop"
  /\ UNCHANGED <<queue, running, shutdown>>

\* Lines 597-606: process_message and the except clause, for the dequeued
\* message; F is the set of collaborator calls that raise.
Process ==
  /\ pc = "got"
  /\ \E F \in SUBSET FaultsOf(message.command) :
       LET R == LoopBody(Session, message, F)
       IN  /\ IF R.restart THEN Restarted(R) ELSE Returned(R)
           /\ last' = [id |-> message.id, command |-> message.command,
                       data |-> message.data, pre |-> state,
                       outcome |-> Outcome(R), fault |-> F # {}]
           /\ afterPause' =
                IF message.command = "pause" /\ Outcome(R) = "ok"
                  THEN "pause"
                ELSE IF message.command = "resume" /\ afterPause = "pause"
                  THEN "resume"
                ELSE "no"
           /\ effects' = R.effects
           /\ out' = R.out
  /\ message' = NoMessage
  /\ UNCHANGED <<nextId, update_sent, instrumenter>>

\* The loop test fails after the signal handler has cleared running.
LoopExit ==
  /\ pc = "loop"
  /\ ~running
  /\ pc' = "exited"
  /\ UNCHANGED <<state, queue, handles, current_client, connections, running,
                 consumer, orphans, message, nextId, update_sent, last,
                 effects, out, afterPause,
                 shutdown, instrumenter>>

\* Lines 552-586, as a session operator: the handler's own teardown.
StopGui(S, F) ==
  IF S.gui_server = None THEN S
  ELSE IF "gui_stop" \in F THEN Call(S, "gui_stop")
  ELSE [Call(S, "gui_stop") EXCEPT !.gui_server = "stopped"]

signal_handler(S, F) ==
  TerminateWorld(TerminateVisualization(
    StopApplication(StopConsumer(StopGui(S, F)), F), F), F)

\* The teardown calls of the handler either all return or all raise.
TeardownFaults == {"gui_stop", "stop_app", "term_vis", "term_world"}

\* SIGINT is delivered while the main thread is in the loop: the handler
\* runs to its end before the loop goes on.
Signal ==
  /\ pc \in {"loop", "got"}
  /\ signals < MaxSignals
  /\ signals' = signals + 1
  /\ running' = FALSE
  /\ \E F \in {{}, TeardownFaults} :
       LET R == signal_handler(Session, F)
       IN  /\ world_launcher' = R.world_launcher
           /\ visualization_launcher' = R.visualization_launcher
           /\ application_process' = R.application_process
           /\ gui_server' = R.gui_server
           /\ consumer' = R.consumer
           /\ signal_raised' = R.raised
  /\ UNCHANGED <<state, queue, current_client, connections, orphans, pc,
                 message, nextId, update_sent, last, effects, out, afterPause,
                 instrumenter>>

Clients == 1..MaxClients

\* Server.on_open (lines 54-57): under the lock, the new client becomes the
\* current one.  The value is the new current_client.
on_open(current, client) == client

\* A close handler that forgets to clear the reference.
on_close_keeps(current, client) == current

\* Server.on_close (lines 48-52): under the lock, the reference is cleared
\* if it is the client that left.
on_close(current, client) == IF client = current THEN 0 ELSE current

\* A new connection is accepted on the relay's thread.
OnOpen ==
  /\ gui_server = "started"
  /\ \E c \in Clients \ connections :
       /\ connections' = connections \cup {c}
       /\ current_client' = on_open(current_client, c)
  /\ UNCHANGED <<state, queue, handles, running, consumer, orphans, pc,
                 message, nextId, update_sent, last, effects, out, afterPause,
                 shutdown, instrumenter>>

\* A connection of the relay ends.
OnClose ==
  /\ gui_server # None
  /\ \E c \in connections :
       /\ connections' = connections \ {c}
       /\ current_client' = on_close(current_client, c)
  /\ UNCHANGED <<state, queue, handles, running, consumer, orphans, pc,
                 message, nextId, update_sent, last, effects, out, afterPause,
                 shutdown, instrumenter>>

\* Server.on_message calls Manager.update (lines 161-164) on the relay's
\* thread: one update message goes to the transport.
Update ==
  /\ gui_server = "started"
  /\ connections # {}
  /\ update_sent' = TRUE
  /\ UNCHANGED <<state, queue, handles, current_client, connections, running,
                 consumer, orphans, pc, message, nextId, last,
                 effects, out, afterPause,
                 shutdown, instrumenter>>

Next ==
  \/ Start
  \/ Deliver
  \/ Dequeue
  \/ Process
  \/ LoopExit
  \/ Signal
  \/ OnOpen
  \/ OnClose
  \/ Update

Spec == Init /\ [][Next]_vars

\* ------------------------------------------------------- the relay alone
\* The Server of a session in visualization_ready, with the threads that
\* call it: the websocket server's threads call on_open and on_close, the
\* main thread calls send.  Each body runs with client_lock held, so each
\* call is one step and the steps interleave in every order.
Peers == 1..MaxPeers

RelayInit ==
  /\ state = "visualization_ready"
  /\ queue = <<>>
  /\ world_launcher = "live"
  /\ visualization_launcher = "live"
  /\ application_process = None
  /\ gui_server = "started"
  /\ current_client = 0
  /\ connections = {}
  /\ running = TRUE
  /\ consumer = "started"
  /\ orphans = [k \in Kinds |-> 0]
  /\ pc = "loop"
  /\ message = NoMessage
  /\ nextId = 1
  /\ update_sent = FALSE
  /\ last = NoLast
  /\ effects = <<>>
  /\ out = <<>>
  /\ afterPause = "no"
  /\ signals = 0
  /\ signal_raised = FALSE
  /\ code = <<>>
  /\ instrumented = <<>>

RelayFrame ==
  UNCHANGED <<state, queue, handles, running, consumer, orphans, pc, message,
              nextId, update_sent, out, afterPause, shutdown, instrumenter>>

RelayOpen ==
  /\ \E c \in Peers \ connections :
       /\ connections' = connections \cup {c}
       /\ current_client' = on_open(current_client, c)
  /\ last' = NoLast
  /\ effects' = <<>>
  /\ RelayFrame

RelayClose ==
  /\ \E c \in connections :
       /\ connections' = connections \ {c}
       /\ current_client' = on_close(current_client, c)
  /\ last' = NoLast
  /\ effects' = <<>>
  /\ RelayFrame

\* gui_server.send(data) on the main thread; last and effects tell what the
\* call did until the next on_open or on_close.
RelaySend ==
  /\ LET R == send(Session)
     IN  /\ effects' = R.effects
         /\ last' = [NoLast EXCEPT !.command = "gui", !.pre = state,
                                   !.outcome = Outcome(R)]
  /\ UNCHANGED <<current_client, connections>>
  /\ RelayFrame

RelayNext ==
  \/ RelayOpen
  \/ RelayClose
  \/ RelaySend

RelaySpec == RelayInit /\ [][RelayNext]_vars

\* ------------------------------------------- add_frequency_control alone
SeqsUpTo(n) == UNION {[1..k -> Tokens] : k \in 0..n}
Texts == SeqsUpTo(MaxLen)

InstrInit ==
  /\ code \in Texts
  /\ instrumented = <<>>
  /\ state = "idle"
  /\ queue = <<>>
  /\ world_launcher = None
  /\ visualization_launcher = None
  /\ application_process = None
  /\ gui_server = None
  /\ current_client = 0
  /\ connections = {}
  /\ running = TRUE
  /\ consumer = "created"
  /\ orphans = [k \in Kinds |-> 0]
  /\ pc = "start"
  /\ message = NoMessage
  /\ nextId = 1
  /\ update_sent = FALSE
  /\ last = NoLast
  /\ effects = <<>>
  /\ out = <<>>
  /\ afterPause = "no"
  /\ signals = 0
  /\ signal_raised = FALSE

\* code = self.add_frequency_control(code), line 390.
Instrument ==
  /\ instrumented' = add_frequency_control(code)
  /\ UNCHANGED <<program, observer, shutdown, code>>

InstrNext == Instrument

InstrSpec == InstrInit /\ [][InstrNext]_vars

\* ------------------------------------------------------------------ claims
\* A step of the loop that ends the processing of the dequeued message.
Processing == pc = "got" /\ pc' # "got"

Count(es, e) == Cardinality({i \in 1..Len(es) : es[i] = e})
HasError(ms, id) == \E i \in 1..Len(ms) : ms[i] = <<"error", id, "-">>
HasAck(ms, id, st) == \E i \in 1..Len(ms) : ms[i] = <<"ack", id, st>>
Succeeded == last.outcome \in {"ok", "restart"}
Populated(h) == h # None
Alive(k) ==
  orphans[k] + Live(CASE k = "world" -> world_launcher
                      [] k = "visualization" -> visualization_launcher
                      [] k = "application" -> application_process)

\* The source sets the transition table declares (spec section 4.1).
DeclaredSource(t) ==
  CASE t = "connect" -> {"idle"}
    [] t = "launch_world" -> {"connected"}
    [] t = "prepare_visualization" -> {"world_ready"}
    [] t = "run_application" -> {"visualization_ready", "paused"}
    [] t = "pause" -> {"application_running"}
    [] t = "resume" -> {"paused"}
    [] t = "terminate_application" ->
         {"visualization_ready", "application_running", "paused"}
    [] t = "terminate_visualization" -> {"visualization_ready"}
    [] t = "terminate_universe" -> {"world_ready"}
    [] t \in {"disconnect", "style_check"} ->
         {"idle", "connected", "world_ready", "visualization_ready",
          "application_running", "paused"}

\* C1 as stated: a trigger succeeds if and only if the state is in its
\* declared source set; otherwise the state is unchanged and an error is
\* reported.
C1_SucceedsIffInSource ==
  last.command \in Triggers =>
    /\ Succeeded <=> last.pre \in DeclaredSource(last.command)
    /\ last.pre \notin DeclaredSource(last.command) =>
         state = last.pre /\ HasError(out, last.id)

\* C1 amended: a trigger succeeds only if the state is in its declared
\* source set; when it is not, the command fails, the state after it equals
\* the state before it and an error event with the command's id is sent.
C1_RejectedOutsideSource ==
  last.command \in Triggers =>
    /\ Succeeded => last.pre \in DeclaredSource(last.command)
    /\ last.pre \notin DeclaredSource(last.command) =>
         /\ last.outcome = "error"
         /\ state = last.pre
         /\ HasError(out, last.id)

C1_Witness ==
  /\ last.command = "pause"
  /\ last.pre = "world_ready"
  /\ last.outcome = "error"
  /\ state = "world_ready"
  /\ HasError(out, last.id)

Once(h) == IF Populated(h) THEN 1 ELSE 0

C3_PauseThenResume ==
  [][(Processing /\ running /\ ~last'.fault) =>
       /\ (message.command = "pause" /\ state = "application_running") =>
            /\ state' = "paused"
            /\ afterPause' = "pause"
            /\ effects' = <<"suspend", "pause_sim">>
       /\ (message.command = "resume" /\ afterPause = "pause") =>
            /\ state = "paused"
            /\ state' = "application_running"
            /\ effects' = <<"proc_resume", "unpause_sim">>]_vars

C3_Witness ==
  /\ afterPause = "resume"
  /\ last.command = "resume"
  /\ last.outcome = "ok"
  /\ state = "application_running"
  /\ effects = <<"proc_resume", "unpause_sim">>

\* C4: when the processing of a dequeued command raises, the last message
\* sent is an error event with the id of that command, and the loop is back
\* at its test with the queue and the running flag as they were.
C4_ErrorEventAndContinue ==
  [][(Processing /\ last'.outcome = "error") =>
       /\ Len(out') > 0
       /\ out'[Len(out')] = <<"error", message.id, "-">>
       /\ pc' = "loop"
       /\ running' = running
       /\ queue' = queue]_vars

C4_Witness ==
  /\ last.outcome = "error"
  /\ HasError(out, last.id)
  /\ pc = "loop"
  /\ running
  /\ queue # <<>>

\* C5 as stated: every trigger that succeeds, disconnect included, is
\* answered by an acknowledgment with the id of the command that names the
\* state reached.
C5_AckOnSuccess ==
  (last.command \in Triggers /\ Succeeded) => HasAck(out, last.id, state)

IsIncreasing(q) == \A i, j \in 1..Len(q) : i < j => q[i] < q[j]

\* C6: a message is dequeued only when no message is in flight (the
\* processing of the one before has ended), it is the one that has waited
\* longest, and it was delivered after the one processed before it.
C6_OneAtATimeInOrder ==
  [][(message' # message /\ message' # NoMessage) =>
       /\ message = NoMessage
       /\ pc = "loop"
       /\ queue # <<>>
       /\ IsIncreasing(queue)
       /\ message'.id = queue[1]
       /\ last.id < message'.id
       /\ queue' = Tail(queue)]_vars

C6_Witness ==
  /\ pc = "got"
  /\ message.id = 3
  /\ queue = <<4, 5>>

\* C7 as stated (its particular case): after a run_application accepted in
\* paused, with no collaborator call raising, at most one application
\* process is live.
C7_OneApplicationProcess ==
  (/\ last.command = "run_application"
   /\ last.pre = "paused"
   /\ last.outcome = "ok"
   /\ ~last.fault) => Alive("application") <= 1

\* C8 as stated: the state changes, and a handle becomes populated or
\* absent, only in a step in which the loop processes a dequeued command.
C8_OnlyDispatcherWrites ==
  [][(\/ state' # state
      \/ Populated(world_launcher') # Populated(world_launcher)
      \/ Populated(visualization_launcher') # Populated(visualization_launcher)
      \/ Populated(application_process') # Populated(application_process)
      \/ Populated(gui_server') # Populated(gui_server)) => Processing]_vars

\* C9: a run_application with inline code that fails lint, processed in
\* visualization_ready or paused, leaves the state and the application
\* handle as they were, spawns nothing and sends an error event with the
\* command's id.
C9_LintFailureAborts ==
  [][(/\ Processing
      /\ message.command = "run_application"
      /\ message.data = "inline_lint"
      /\ state \in {"visualization_ready", "paused"}) =>
       /\ state' = state
       /\ application_process' = application_process
       /\ orphans' = orphans
       /\ Count(effects', "spawn_app") = 0
       /\ HasError(out', message.id)]_vars

C9_Witness ==
  /\ last.command = "run_application"
  /\ last.data = "inline_lint"
  /\ last.pre = "paused"
  /\ state = "paused"
  /\ application_process = "live"
  /\ HasError(out, last.id)

Spawns == {"spawn_app", "world_run", "vis_run", "gui_start"}

\* C10: a style_check processed in any state, whatever its payload, leaves
\* the state and the four handles as they were and starts no process.
C10_StyleCheckChangesNothing ==
  [][(Processing /\ message.command = "style_check") =>
       /\ state' = state
       /\ handles' = handles
       /\ orphans' = orphans
       /\ \A e \in Spawns : Count(effects', e) = 0]_vars

C10_Witness ==
  /\ last.command = "style_check"
  /\ last.data = "lint_ok"
  /\ last.pre = "application_running"
  /\ state = "application_running"
  /\ application_process = "live"

\* C11 as stated: a style_check of inline code raises when the linter reports
\* errors and only then; when it reports none the command succeeds: an
\* acknowledgment with the unchanged state is sent and no error event.
C11_RaisesOnlyOnLintFailure ==
  (last.command = "style_check" /\ last.data \in {"lint_ok", "lint_err"}) =>
    /\ last.outcome = "error" <=> last.data = "lint_err"
    /\ last.data = "lint_ok" =>
         /\ HasAck(out, last.id, last.pre)
         /\ ~HasError(out, last.id)

\* C12 as stated: a gui command processed in any state, with a relay or
\* without one, leaves the state and the four handles as they were, raises
\* nothing, calls the relay's send exactly once, and the loop is back at its
\* test.
C12_GuiForwarded ==
  [][(Processing /\ message.command = "gui") =>
       /\ state' = state
       /\ handles' = handles
       /\ last'.outcome = "ok"
       /\ Count(effects', "send") = 1
       /\ out' = <<>>
       /\ pc' = "loop"]_vars

\* C13: in the relay, under every interleaving of on_open, on_close and
\* send, the current-client reference is absent or designates a connection
\* that is open (its close has not been processed since it was accepted),
\* and a send made while the reference is absent raises nothing and
\* delivers nothing.
C13_RelayNeverPointsAtClosed ==
  /\ current_client # 0 => current_client \in connections
  /\ (last.command = "gui" /\ current_client = 0) =>
       /\ last.outcome = "ok"
       /\ effects = <<"send">>

C13_Witness ==
  /\ last.command = "gui"
  /\ current_client = 0
  /\ Cardinality(connections) = 2
  /\ effects = <<"send">>

HasStateChanged(ms, st) ==
  \E i \in 1..Len(ms) : ms[i] = <<"state-changed", 0, st>>

\* C14 as stated: after every trigger that succeeds and leaves the session
\* in another state than it found it, disconnect reaching idle included, a
\* state-changed notification naming the state reached has been sent.
C14_NotifiedAfterCommit ==
  (last.command \in Triggers /\ Succeeded /\ state # last.pre) =>
    HasStateChanged(out, state)

HasHeader(c) == \E i \in 1..Len(c) : c[i] \in Headers
FirstHeader(c) ==
  CHOOSE i \in 1..Len(c) :
    c[i] \in Headers /\ \A j \in 1..(i - 1) : c[j] \notin Headers

\* C15 as stated: for every text that contains a loop header in a recognised
\* spelling, the output is the prelude, then the text with one
\* timestamp-capture fragment right after its first header, wherever that
\* header is indented, then one timing/sleep fragment.
C15_FragmentAfterFirstHeader ==
  (instrumented # <<>> /\ HasHeader(code)) =>
    instrumented =
      Prelude \o SubSeq(code, 1, FirstHeader(code)) \o Pre
        \o SubSeq(code, FirstHeader(code) + 1, Len(code)) \o Post

\* The relay, the transport and the three resources have been torn down.
TornDown ==
  /\ gui_server # "started"
  /\ consumer = "stopped"
  /\ application_process = None
  /\ visualization_launcher # "live"
  /\ world_launcher # "live"

\* C16: a delivery of SIGINT that finds the relay, the transport and the
\* three resources torn down by an earlier delivery raises nothing and
\* leaves the four handles, the transport and the state as they were.
C16_SecondSignalChangesNothing ==
  [][(signals >= 1 /\ signals' = signals + 1 /\ TornDown) =>
       /\ ~signal_raised'
       /\ handles' = handles
       /\ consumer' = consumer
       /\ state' = state]_vars

C16_Witness ==
  /\ signals = 2
  /\ ~signal_raised
  /\ TornDown
  /\ gui_server = "stopped"
  /\ visualization_launcher = "dead"
  /\ world_launcher = "dead"

\* C17 as stated: after a terminate_universe that succeeded the world handle
\* is absent, and after a terminate_visualization that succeeded the
\* visualization handle and the relay reference are absent.
C17_HandleClearedByTerminate ==
  /\ (last.command = "terminate_universe" /\ last.outcome = "ok") =>
       world_launcher = None
  /\ (last.command = "terminate_visualization" /\ last.outcome = "ok") =>
       visualization_launcher = None /\ gui_server = None

\* C18 as stated: a terminate_application accepted with an application
\* process present attempts its sub-steps whatever the outcome of the
\* earlier ones: the process tree is stopped, the handle is cleared, the
\* simulation is paused and reset, in this order, also when one of the calls
\* raises.
C18_SubStepsAllAttempted ==
  [][(/\ Processing
      /\ message.command = "terminate_application"
      /\ state \in DeclaredSource("terminate_application")
      /\ Populated(application_process)) =>
       /\ application_process' = None
       /\ effects' = <<"stop_app", "pause_sim", "reset_sim">>]_vars

\* C19 as stated: a launch_world processed in connected whose configuration
\* step fails (the validator rejects the payload, or the archive cannot be
\* decoded or extracted) is aborted: the state stays connected, the world
\* handle is as it was, no launcher is run and an error event with the
\* command's id is sent.
C19_ConfigFailureAborts ==
  [][(/\ Processing
      /\ message.command = "launch_world"
      /\ state = "connected"
      /\ message.data \in {"invalid", "zip_b64", "zip_bad"}) =>
       /\ state' = "connected"
       /\ world_launcher' = world_launcher
       /\ Count(effects', "world_run") = 0
       /\ HasError(out', message.id)]_vars

\* C20: a run_application with inline code that passes lint and has no loop
\* header, processed in visualization_ready or paused, raises in the
\* instrumentation step: nothing is written, nothing is spawned, the state
\* and the application handle are as they were and an error event with the
\* command's id is sent.
C20_NoLoopHeaderRaises ==
  [][(/\ Processing
      /\ message.command = "run_application"
      /\ message.data = "inline_noloop"
      /\ state \in {"visualization_ready", "paused"}) =>
       /\ effects' = <<"lint", "add_frequency_control">>
       /\ Count(effects', "write") = 0
       /\ Count(effects', "spawn_app") = 0
       /\ state' = state
       /\ application_process' = application_process
       /\ orphans' = orphans
       /\ last'.outcome = "error"
       /\ HasError(out', message.id)]_vars

C20_Witness ==
  /\ last.command = "run_application"
  /\ last.data = "inline_noloop"
  /\ last.pre = "visualization_ready"
  /\ last.outcome = "error"
  /\ state = "visualization_ready"
  /\ application_process = None
  /\ effects = <<"lint", "add_frequency_control">>
  /\ HasError(out, last.id)

\* C21 as stated: a launch_world, prepare_visualization or run_application
\* that ends in an error leaves the resources as it found them: no handle
\* has become populated and no more processes are alive than before.
C21_FailedActionLeavesResources ==
  [][(/\ Processing
      /\ message.command \in {"launch_world", "prepare_visualization",
                               "run_application"}
      /\ last'.outcome = "error") =>
       /\ Populated(world_launcher') = Populated(world_launcher)
       /\ Populated(visualization_launcher') =
            Populated(visualization_launcher)
       /\ Populated(application_process') = Populated(application_process)
       /\ Populated(gui_server') = Populated(gui_server)
       /\ \A k \in Kinds : Alive(k)' <= Alive(k)]_vars

\* C22 as stated: whenever the state is application_running or paused the
\* application handle is populated.
C22_ApplicationHandlePopulated ==
  state \in {"application_running", "paused"} =>
    Populated(application_process)

Responses(ms, id) ==
  Cardinality({i \in 1..Len(ms) :
                 ms[i][1] \in {"ack", "error"} /\ ms[i][2] = id})

\* C23 as stated, in the form a finite run refutes: a command leaves the
\* queue only by being dequeued, the processing of a dequeued command other
\* than gui sends exactly one response (acknowledgment or error event) with
\* its id, and the loop does not end while commands are waiting.
C23_EveryCommandAnswered ==
  [][/\ queue' # queue =>
          \/ queue' = Append(queue, nextId)
          \/ pc = "loop" /\ pc' = "got" /\ queue' = Tail(queue)
     /\ (Processing /\ message.command # "gui") =>
          Responses(out', message.id) = 1
     /\ pc' = "exited" => queue' = <<>>]_vars

====
